---- MODULE Spec2Model ----
(***************************************************************************)
(* A model of the Unit-Hydrograph-Model repository:                        *)
(*   - download_large_file (src/src/dataDownload/download.py), the         *)
(*     resumable chunked download with its retry loop;                     *)
(*   - voronoi_finite_polygons_2d and derive_thiessen_polygons             *)
(*     (src/src/preprocessing/thiessenPolygons.py).                        *)
(* Python indices are kept 0-based as values (so the negative sentinel of  *)
(* a Voronoi region is -1, as in scipy); element i of a Python list is     *)
(* element i+1 of the TLA+ sequence that models it.                        *)
(***************************************************************************)
EXTENDS Integers, Sequences, FiniteSets, TLC

(***************************************************************************)
(* Bounds of the model.                                                    *)
(***************************************************************************)
\* longest remote file, in bytes
MaxBytes == 3
\* largest chunk_size argument
MaxChunk == 2
\* largest max_retries argument
MaxRetries == 2
\* how many of the candidate sites input points are drawn from
NumSites == 7
\* largest number of input points
MaxN == 4
\* an explicit radius argument, in coordinate units
RadiusArg == 5
\* fixed-point units per coordinate unit
Scale == 120
\* fixed-point units of a unit vector's component
UnitScale == 10000

VARIABLES
    \* ---- download_large_file ----
    dl_pc,            \* position in download_large_file
    remote,           \* the bytes of the remote file (the server's state)
    range_ok,         \* whether the server honours Range requests
    init_file,        \* the destination's content when the call starts
    file,             \* the destination's content; NoFile when it does not exist
    max_retries,      \* argument
    chunk_size,       \* argument
    retries,          \* local variable `retries`
    downloaded_size,  \* local variable `downloaded_size`
    status_code,      \* response.status_code of the current attempt (0: none yet)
    body,             \* the part of the response body not yet iterated
    range_start,      \* the offset sent in the Range header of the last request
    attempts,         \* history: how many requests the call has sent
    last_status,      \* history: how the call ended
    \* ---- voronoi_finite_polygons_2d ----
    fin_pc,           \* position in voronoi_finite_polygons_2d
    vor,              \* argument: the Voronoi diagram
    radius_arg,       \* argument: radius ([given |-> FALSE, ...] is None)
    hull_center,      \* local
    radius,           \* local, after the default is applied
    ridge_dict,       \* local
    p1,               \* the loop variable of line 69
    new_regions,      \* local, returned
    new_vertices,     \* local, returned
    synthesized,      \* history: one record per vertex appended at line 93
    \* ---- derive_thiessen_polygons ----
    th_pc,            \* position in derive_thiessen_polygons
    gdf_points,       \* argument: the points, their attribute and their crs
    clipping_gdf,     \* argument: the boundary's parts and its crs
    clipping_union,   \* local
    th_radius,        \* local `radius`
    polys,            \* local
    thiessen_gdf,     \* local
    clip_mask,        \* local
    thiessen_clipped, \* local, returned
    th_error          \* the exception that left the call ("none": none)

dlvars == <<dl_pc, remote, range_ok, init_file, file, max_retries, chunk_size,
            retries, downloaded_size, status_code, body, range_start, attempts,
            last_status>>

finvars == <<fin_pc, vor, radius_arg, hull_center, radius, ridge_dict, p1,
             new_regions, new_vertices, synthesized>>

thvars == <<th_pc, gdf_points, clipping_gdf, clipping_union, th_radius, polys,
            thiessen_gdf, clip_mask, thiessen_clipped, th_error>>

vars == <<dlvars, finvars, thvars>>

(***************************************************************************)
(* Generic helpers.                                                        *)
(***************************************************************************)
Min(a, b) == IF a <= b THEN a ELSE b
Max(a, b) == IF a >= b THEN a ELSE b

\* s[from+1 ..], the Python slice s[from:]
Drop(s, from) == IF from >= Len(s) THEN <<>> ELSE SubSeq(s, from + 1, Len(s))
\* s[.. n], the Python slice s[:n]
Take(s, n) == SubSeq(s, 1, Min(n, Len(s)))

(***************************************************************************)
(* Numbers.  The program computes in float64; the model computes in fixed  *)
(* point: a coordinate c is the integer nearest to c * Scale, and a        *)
(* component of a unit vector is the integer nearest to it times           *)
(* UnitScale.  Input coordinates are whole numbers, so the predicates of   *)
(* the Voronoi diagram itself (orientation, in-circle) are exact.          *)
(***************************************************************************)
Abs(a) == IF a < 0 THEN -a ELSE a
Sign(a) == IF a > 0 THEN 1 ELSE IF a < 0 THEN -1 ELSE 0

\* a / b rounded to the nearest integer, b > 0
RDiv(a, b) == (2 * a + b) \div (2 * b)

RECURSIVE SqrtIter(_, _)
SqrtIter(n, x) ==
    LET y == (x + n \div x) \div 2
    IN  IF y >= x THEN x ELSE SqrtIter(n, y)
\* floor of the square root
ISqrt(n) == IF n < 2 THEN n ELSE SqrtIter(n, n)

\* math.hypot / np.linalg.norm of a 2-vector, in the units of its arguments
Hypot(a, b) == ISqrt(a * a + b * b)

Fx(c) == c * Scale
FxPoint(p) == <<Fx(p[1]), Fx(p[2])>>

VSub(a, b) == <<a[1] - b[1], a[2] - b[2]>>
VAdd(a, b) == <<a[1] + b[1], a[2] + b[2]>>
Dot(a, b) == a[1] * b[1] + a[2] * b[2]
Cross(a, b) == a[1] * b[2] - a[2] * b[1]

RECURSIVE SumSeq(_)
SumSeq(s) == IF s = <<>> THEN 0 ELSE Head(s) + SumSeq(Tail(s))

\* np.mean(pts, axis=0) of a non-empty sequence of 2-vectors
MeanPoint(pts) ==
    <<RDiv(SumSeq([i \in 1..Len(pts) |-> pts[i][1]]), Len(pts)),
      RDiv(SumSeq([i \in 1..Len(pts) |-> pts[i][2]]), Len(pts))>>

RECURSIVE SetToSeq(_)
SetToSeq(S) ==
    IF S = {} THEN <<>>
    ELSE LET x == CHOOSE y \in S : TRUE IN <<x>> \o SetToSeq(S \ {x})

\* The order of np.arctan2 values of two vectors: arctan2 ranges over
\* (-pi, pi].  AngleClass splits that range at 0 and pi.
AngleClass(u) ==
    IF u[2] < 0 THEN 0
    ELSE IF u[2] = 0 /\ u[1] >= 0 THEN 1
    ELSE IF u[2] > 0 THEN 2
    ELSE 3
AngleLess(u, v) ==
    \/ AngleClass(u) < AngleClass(v)
    \/ /\ AngleClass(u) = AngleClass(v)
       /\ AngleClass(u) \in {0, 2}
       /\ Cross(u, v) > 0

\* np.argsort(angles): the positions 1..Len(vs) ordered by the angle of
\* vs[i]; positions of equal angle keep their order (arrays this short are
\* sorted by insertion).
RECURSIVE InsertByAngle(_, _, _)
InsertByAngle(sorted, i, vs) ==
    IF sorted = <<>> THEN <<i>>
    ELSE IF AngleLess(vs[i], vs[sorted[Len(sorted)]])
         THEN InsertByAngle(SubSeq(sorted, 1, Len(sorted) - 1), i, vs)
              \o <<sorted[Len(sorted)]>>
         ELSE sorted \o <<i>>
RECURSIVE ArgSortPrefix(_, _)
ArgSortPrefix(vs, n) ==
    IF n = 0 THEN <<>> ELSE InsertByAngle(ArgSortPrefix(vs, n - 1), n, vs)
ArgSortAngles(vs) == ArgSortPrefix(vs, Len(vs))

(***************************************************************************)
(* scipy.spatial.Voronoi and ConvexHull, on whole-number input points.     *)
(* pts is a sequence of <<x, y>>; point i of Python is pts[i+1].           *)
(***************************************************************************)
Orient(a, b, c) == Cross(VSub(b, a), VSub(c, a))

Sq(a) == a * a

\* The in-circle determinant of d against the circle through a, b, c: with
\* a, b, c counter-clockwise it is positive when d is strictly inside.
InCircleDet(a, b, c, d) ==
    LET ax == a[1] - d[1]   ay == a[2] - d[2]
        bx == b[1] - d[1]   by == b[2] - d[2]
        cx == c[1] - d[1]   cy == c[2] - d[2]
    IN    (Sq(ax) + Sq(ay)) * (bx * cy - cx * by)
        - (Sq(bx) + Sq(by)) * (ax * cy - cx * ay)
        + (Sq(cx) + Sq(cy)) * (ax * by - bx * ay)
InsideCircle(a, b, c, d) == Orient(a, b, c) * InCircleDet(a, b, c, d) > 0
OnCircle(a, b, c, d) == InCircleDet(a, b, c, d) = 0

Collinear(pts) ==
    \A i, j, k \in 1..Len(pts) : Orient(pts[i], pts[j], pts[k]) = 0
Distinct(pts) ==
    \A i, j \in 1..Len(pts) : i # j => pts[i] # pts[j]

\* Qhull builds an initial simplex: it needs three points that are not on
\* one line, and raises QhullError otherwise (also for fewer than three).
QhullFails(pts) == Len(pts) < 3 \/ Collinear(pts)

\* The Delaunay faces: the maximal sets of points on one empty circle.  Each
\* is one Voronoi vertex.
Triples(pts) ==
    {T \in SUBSET (1..Len(pts)) :
        /\ Cardinality(T) = 3
        /\ \E i, j, k \in T : Orient(pts[i], pts[j], pts[k]) # 0}
TripleSeq(T) == SetToSeq(T)
EmptyCircle(pts, T) ==
    LET t == TripleSeq(T)
    IN  \A d \in 1..Len(pts) : ~InsideCircle(pts[t[1]], pts[t[2]], pts[t[3]], pts[d])
FaceOf(pts, T) ==
    LET t == TripleSeq(T)
    IN  {d \in 1..Len(pts) : OnCircle(pts[t[1]], pts[t[2]], pts[t[3]], pts[d])}
DelaunayFaces(pts) == {FaceOf(pts, T) : T \in {U \in Triples(pts) : EmptyCircle(pts, U)}}

\* The circumcentre of a face, in fixed point.
Circumcentre(pts, F) ==
    LET t == TripleSeq(CHOOSE T \in Triples(pts) : T \subseteq F)
        a == pts[t[1]]
        b == VSub(pts[t[2]], a)
        c == VSub(pts[t[3]], a)
        d == 2 * Cross(b, c)
        ux == Dot(b, b) * c[2] - Dot(c, c) * b[2]
        uy == Dot(c, c) * b[1] - Dot(b, b) * c[1]
        s == Sign(d)
    IN  <<Fx(a[1]) + RDiv(s * ux * Scale, s * d),
          Fx(a[2]) + RDiv(s * uy * Scale, s * d)>>

\* p and q (positions in pts) are neighbours on face F: every other point
\* of the face is strictly on one side of the line through them.
AdjacentOn(pts, F, p, q) ==
    /\ p \in F /\ q \in F /\ p # q
    /\ \/ \A r \in F \ {p, q} : Orient(pts[p], pts[q], pts[r]) > 0
       \/ \A r \in F \ {p, q} : Orient(pts[p], pts[q], pts[r]) < 0

\* Position of x in sequence s (1-based); s holds x exactly once.
IndexOf(s, x) == CHOOSE i \in 1..Len(s) : s[i] = x

\* A point's region is unbounded iff the point is on the boundary of the
\* convex hull: one of its ridges is a ray.
RidgeFaces(pts, faces, p, q) == {F \in faces : AdjacentOn(pts, F, p, q)}
OnHullBoundary(pts, faces, p) ==
    \E q \in 1..Len(pts) : Cardinality(RidgeFaces(pts, faces, p, q)) = 1

\* The Voronoi diagram.  vertex_order is the order Qhull numbers the
\* vertices in, region_of the region number of each point (region 0 is the
\* empty region scipy lists first), sentinel_first the place of -1 in the
\* ridge_vertices pair of a ray.
Voronoi(pts, region_of, sentinel_first) ==
    LET faces == DelaunayFaces(pts)
        fseq == SetToSeq(faces)
        n == Len(pts)
        vidx(F) == IndexOf(fseq, F) - 1
        pairs == {pq \in (1..n) \X (1..n) :
                      pq[1] < pq[2] /\ RidgeFaces(pts, faces, pq[1], pq[2]) # {}}
        pseq == SetToSeq(pairs)
        rv(pq) ==
            LET fs == SetToSeq(RidgeFaces(pts, faces, pq[1], pq[2]))
            IN  IF Len(fs) = 2 THEN <<vidx(fs[1]), vidx(fs[2])>>
                ELSE IF sentinel_first THEN <<-1, vidx(fs[1])>>
                ELSE <<vidx(fs[1]), -1>>
        verts == [i \in 1..Len(fseq) |-> Circumcentre(pts, fseq[i])]
        cell(p) ==
            LET mine == SetToSeq({F \in faces : p \in F})
                rel == [i \in 1..Len(mine) |->
                           VSub(verts[vidx(mine[i]) + 1], FxPoint(pts[p]))]
                ord == ArgSortAngles(rel)
                ring == [i \in 1..Len(mine) |-> vidx(mine[ord[i]])]
            IN  IF OnHullBoundary(pts, faces, p) THEN <<-1>> \o ring ELSE ring
        regs == [r \in 1..(n + 1) |->
                    IF r = 1 THEN <<>>
                    ELSE cell(CHOOSE p \in 1..n : region_of[p] = r - 1)]
    IN  [points |-> [i \in 1..n |-> FxPoint(pts[i])],
         vertices |-> verts,
         regions |-> regs,
         point_region |-> region_of,
         ridge_points |-> [i \in 1..Len(pseq) |-> <<pseq[i][1] - 1, pseq[i][2] - 1>>],
         ridge_vertices |-> [i \in 1..Len(pseq) |-> rv(pseq[i])]]

\* ConvexHull(points).vertices: the extreme points (Qhull leaves out a point
\* that lies on an edge between two others), as positions in pts.
StrictlyBetween(a, b, p) ==
    /\ Orient(a, b, p) = 0
    /\ Dot(VSub(p, a), VSub(p, b)) < 0
InTriangle(a, b, c, p) ==
    LET o == Sign(Orient(a, b, c))
    IN  /\ o # 0
        /\ o * Orient(a, b, p) > 0
        /\ o * Orient(b, c, p) > 0
        /\ o * Orient(c, a, p) > 0
HullVertices(pts) ==
    {p \in 1..Len(pts) :
        /\ ~\E q, r \in 1..Len(pts) : StrictlyBetween(pts[q], pts[r], pts[p])
        /\ ~\E q, r, s \in 1..Len(pts) : InTriangle(pts[q], pts[r], pts[s], pts[p])}

(***************************************************************************)
(* voronoi_finite_polygons_2d (thiessenPolygons.py 8-102)                  *)
(***************************************************************************)
\* the default of the buffer_ratio parameter
BufferRatio == 10

\* The whole-number input points behind vor.points.
GridPoints(v) ==
    [i \in 1..Len(v.points) |-> <<v.points[i][1] \div Scale, v.points[i][2] \div Scale>>]

RECURSIVE SeqMin(_)
SeqMin(s) == IF Len(s) = 1 THEN s[1] ELSE Min(Head(s), SeqMin(Tail(s)))
RECURSIVE SeqMax(_)
SeqMax(s) == IF Len(s) = 1 THEN s[1] ELSE Max(Head(s), SeqMax(Tail(s)))

\* hull_center: the mean of the hull's vertices (lines 55-57)
HullCenterFirstVertex(v) ==
    v.points[CHOOSE p \in HullVertices(GridPoints(v)) : TRUE]
HullCenter(v) ==
    LET hv == SetToSeq(HullVertices(GridPoints(v)))
    IN  MeanPoint([i \in 1..Len(hv) |-> v.points[hv[i]]])

\* the radius used when the argument is None (lines 59-62)
DefaultRadius(v) ==
    LET xs == [i \in 1..Len(v.points) |-> v.points[i][1]]
        ys == [i \in 1..Len(v.points) |-> v.points[i][2]]
    IN  BufferRatio * Max(SeqMax(xs) - SeqMin(xs), SeqMax(ys) - SeqMin(ys))

\* ridge_dict (lines 64-67): for each point, the ridges it takes part in, in
\* the order of vor.ridge_points, each as <<other point, v1, v2>>.
RECURSIVE RidgesOf(_, _, _)
RidgesOf(v, p, k) ==
    IF k = 0 THEN <<>>
    ELSE LET rp == v.ridge_points[k]
             rv == v.ridge_vertices[k]
             before == RidgesOf(v, p, k - 1)
         IN  IF rp[1] = p /\ rp[2] = p
                 THEN before \o <<<<rp[2], rv[1], rv[2]>>, <<rp[1], rv[1], rv[2]>>>>
             ELSE IF rp[1] = p THEN before \o <<<<rp[2], rv[1], rv[2]>>>>
             ELSE IF rp[2] = p THEN before \o <<<<rp[1], rv[1], rv[2]>>>>
             ELSE before
RidgeDict(v) ==
    [p \in 0..(Len(v.points) - 1) |-> RidgesOf(v, p, Len(v.ridge_points))]

\* The finite endpoint of a ridge after the swap of lines 79-80, and whether
\* the ridge is skipped by lines 81-82.
RidgeV1(r) == IF r[3] < 0 THEN r[3] ELSE r[2]
RidgeV2(r) == IF r[3] < 0 THEN r[2] ELSE r[3]
RidgeSkippedAlways(r) == TRUE
RidgeSkipped(r) == RidgeV1(r) >= 0

\* vor.vertices[v2] (a negative index counts from the end, as in Python)
VertexAt(v, i) == IF i >= 0 THEN v.vertices[i + 1] ELSE v.vertices[Len(v.vertices) + 1 + i]

\* t, normalised, and its normal n (lines 84-86), in UnitScale units
\* (the norm is taken to a sixteenth of a fixed-point unit)
UnitTangent(v, pa, pb) ==
    LET t == VSub(v.points[pb + 1], v.points[pa + 1])
        norm16 == Hypot(16 * t[1], 16 * t[2])
    IN  <<RDiv(16 * t[1] * UnitScale, norm16), RDiv(16 * t[2] * UnitScale, norm16)>>
Normal(v, pa, pb) ==
    LET t == UnitTangent(v, pa, pb) IN <<-t[2], t[1]>>

\* midpoint (line 88)
Midpoint(v, pa, pb) ==
    LET sum == VAdd(v.points[pa + 1], v.points[pb + 1])
    IN  <<RDiv(sum[1], 2), RDiv(sum[2], 2)>>

\* np.dot(midpoint - hull_center, n) (line 89)
CenterDot(v, center, pa, pb) ==
    Dot(VSub(Midpoint(v, pa, pb), center), Normal(v, pa, pb))

\* direction (line 89)
Direction(v, center, pa, pb) ==
    LET n == Normal(v, pa, pb)
        sg == Sign(CenterDot(v, center, pa, pb))
    IN  <<sg * n[1], sg * n[2]>>

\* far_point (line 90)
FarPoint(v, center, rad, pa, r) ==
    LET d == Direction(v, center, pa, r[1])
        base == VertexAt(v, RidgeV2(r))
    IN  <<base[1] + RDiv(d[1] * rad, UnitScale),
          base[2] + RDiv(d[2] * rad, UnitScale)>>

\* The loop over the ridges of pa (lines 78-93), from ridge k on: st holds
\* finite_verts and new_vertices.
RECURSIVE ExtendRidgesInsertFirst(_, _, _, _, _, _)
ExtendRidgesInsertFirst(v, center, rad, pa, ridges, st) ==
    IF ridges = <<>> THEN st
    ELSE LET r == Head(ridges)
         IN  IF RidgeSkipped(r)
             THEN ExtendRidgesInsertFirst(v, center, rad, pa, Tail(ridges), st)
             ELSE ExtendRidgesInsertFirst(v, center, rad, pa, Tail(ridges),
                      [finite_verts |-> Append(st.finite_verts, Len(st.new_vertices)),
                       new_vertices |-> <<FarPoint(v, center, rad, pa, r)>>
                                        \o st.new_vertices])
RECURSIVE ExtendRidges(_, _, _, _, _, _)
ExtendRidges(v, center, rad, pa, ridges, st) ==
    IF ridges = <<>> THEN st
    ELSE LET r == Head(ridges)
         IN  IF RidgeSkipped(r)
             THEN ExtendRidges(v, center, rad, pa, Tail(ridges), st)
             ELSE ExtendRidges(v, center, rad, pa, Tail(ridges),
                      [finite_verts |-> Append(st.finite_verts, Len(st.new_vertices)),
                       new_vertices |-> Append(st.new_vertices,
                                               FarPoint(v, center, rad, pa, r))])

\* Lines 95-100: the vertex indices ordered by angle around their centroid.
SortByAngleSkipped(finite_verts, verts) == finite_verts
SortByAngle(finite_verts, verts) ==
    LET vs == [i \in 1..Len(finite_verts) |-> verts[finite_verts[i] + 1]]
        c == MeanPoint(vs)
        ord == ArgSortAngles([i \in 1..Len(vs) |-> VSub(vs[i], c)])
    IN  [i \in 1..Len(finite_verts) |-> finite_verts[ord[i]]]

\* vor.regions[region_idx] for point pa (lines 69-70)
RegionOfPointByPosition(v, pa) == v.regions[pa + 1]
RegionOfPoint(v, pa) == v.regions[v.point_region[pa + 1] + 1]

IsBounded(region) == \A i \in 1..Len(region) : region[i] >= 0

\* finite_verts (line 75)
FiniteVerts(region) == SelectSeq(region, LAMBDA x : x >= 0)

(***************************************************************************)
(* Inputs: point sets drawn from a list of candidate sites.                *)
(***************************************************************************)
SiteList ==
    <<<<0, 0>>, <<2, 0>>, <<0, 2>>, <<2, 2>>, <<1, 1>>, <<1, 0>>, <<3, 1>>,
      <<1, 3>>, <<3, 3>>, <<2, 1>>>>
Sites == 1..Min(NumSites, Len(SiteList))

\* the chosen sites in the order of the list
RECURSIVE SitesInOrder(_, _)
SitesInOrder(S, k) ==
    IF k > Len(SiteList) THEN <<>>
    ELSE (IF k \in S THEN <<SiteList[k]>> ELSE <<>>) \o SitesInOrder(S, k + 1)
PointSeqs(lo, hi) ==
    {SitesInOrder(S, 1) : S \in {T \in SUBSET Sites : Cardinality(T) \in lo..hi}}

\* The numberings Qhull may give a diagram of n points: which region number
\* each point gets, and where the sentinel stands in a ray's vertex pair.
Numberings(n) ==
    {[region_of |-> [i \in 1..n |-> i], sentinel_first |-> TRUE],
     [region_of |-> [i \in 1..n |-> n + 1 - i], sentinel_first |-> FALSE],
     [region_of |-> [i \in 1..n |-> 1 + (i % n)], sentinel_first |-> TRUE]}

Diagrams(pts) ==
    {[ndim |-> 2] @@ Voronoi(pts, nb.region_of, nb.sentinel_first) : nb \in Numberings(Len(pts))}

NoVor == [ndim |-> 0]
NoRadius == [given |-> FALSE, value |-> 0]

FinIdle ==
    /\ fin_pc = "idle"
    /\ vor = NoVor
    /\ radius_arg = NoRadius
    /\ hull_center = <<0, 0>>
    /\ radius = 0
    /\ ridge_dict = <<>>
    /\ p1 = 0
    /\ new_regions = <<>>
    /\ new_vertices = <<>>
    /\ synthesized = <<>>

\* A call of voronoi_finite_polygons_2d(vor, radius) on its own.
FinInit ==
    /\ fin_pc = "start"
    /\ \E pts \in PointSeqs(3, MaxN) :
          /\ ~QhullFails(pts)
          /\ vor \in Diagrams(pts) \cup {[ndim |-> 3]}
    /\ radius_arg \in {NoRadius, [given |-> TRUE, value |-> Fx(RadiusArg)]}
    /\ hull_center = <<0, 0>>
    /\ radius = 0
    /\ ridge_dict = <<>>
    /\ p1 = 0
    /\ new_regions = <<>>
    /\ new_vertices = <<>>
    /\ synthesized = <<>>

\* Line 48-49: the input is not 2-dimensional.
FinRejects ==
    /\ fin_pc = "start"
    /\ vor.ndim # 2
    /\ fin_pc' = "raised"
    /\ UNCHANGED <<vor, radius_arg, hull_center, radius, ridge_dict, p1,
                   new_regions, new_vertices, synthesized>>

\* Lines 51-67.
FinSetup ==
    /\ fin_pc = "start"
    /\ vor.ndim = 2
    /\ new_regions' = <<>>
    /\ new_vertices' = vor.vertices
    /\ hull_center' = HullCenter(vor)
    /\ radius' = IF radius_arg.given THEN radius_arg.value ELSE DefaultRadius(vor)
    /\ ridge_dict' = RidgeDict(vor)
    /\ p1' = 0
    /\ fin_pc' = "loop"
    /\ UNCHANGED <<vor, radius_arg, synthesized>>

\* One pass of the loop of line 69 for a bounded region (lines 70-73).
KeepBounded ==
    /\ fin_pc = "loop"
    /\ p1 < Len(vor.point_region)
    /\ IsBounded(RegionOfPoint(vor, p1))
    /\ new_regions' = Append(new_regions, RegionOfPoint(vor, p1))
    /\ p1' = p1 + 1
    /\ UNCHANGED <<fin_pc, vor, radius_arg, hull_center, radius, ridge_dict,
                   new_vertices, synthesized>>

\* The history of line 93: the far points appended for the ridges of p, each
\* with the ridge, the finite endpoint and the direction it was made from.
RECURSIVE SynthesizedFor(_, _, _, _, _)
SynthesizedFor(v, center, p, ridges, at) ==
    IF ridges = <<>> THEN <<>>
    ELSE LET r == Head(ridges)
         IN  IF RidgeSkipped(r) THEN SynthesizedFor(v, center, p, Tail(ridges), at)
             ELSE <<[pa |-> p, pb |-> r[1], base |-> RidgeV2(r), index |-> at,
                     direction |-> Direction(v, center, p, r[1]),
                     dot |-> CenterDot(v, center, p, r[1])]>>
                  \o SynthesizedFor(v, center, p, Tail(ridges), at + 1)

\* One pass of the loop of line 69 for an unbounded region (lines 70-100).
ExtendUnbounded ==
    /\ fin_pc = "loop"
    /\ p1 < Len(vor.point_region)
    /\ ~IsBounded(RegionOfPoint(vor, p1))
    /\ LET ext == ExtendRidges(vor, hull_center, radius, p1, ridge_dict[p1],
                      [finite_verts |-> FiniteVerts(RegionOfPoint(vor, p1)),
                       new_vertices |-> new_vertices])
       IN  /\ new_vertices' = ext.new_vertices
           /\ new_regions' =
                  IF ext.finite_verts # <<>>
                  THEN Append(new_regions, SortByAngle(ext.finite_verts, ext.new_vertices))
                  ELSE new_regions
    /\ synthesized' = synthesized \o
           SynthesizedFor(vor, hull_center, p1, ridge_dict[p1], Len(new_vertices))
    /\ p1' = p1 + 1
    /\ UNCHANGED <<fin_pc, vor, radius_arg, hull_center, radius, ridge_dict>>

\* Line 102.
FinReturn ==
    /\ fin_pc = "loop"
    /\ p1 = Len(vor.point_region)
    /\ fin_pc' = "returned"
    /\ UNCHANGED <<vor, radius_arg, hull_center, radius, ridge_dict, p1,
                   new_regions, new_vertices, synthesized>>

FinNext ==
    \/ FinRejects
    \/ FinSetup
    \/ KeepBounded
    \/ ExtendUnbounded
    \/ FinReturn

(***************************************************************************)
(* Geometry of derive_thiessen_polygons.  A polygon is the sequence of its *)
(* vertices (a ring); a boundary part is a rectangle <<x0, y0, x1, y1>>.   *)
(* The result of intersecting a polygon with a part of the clip mask is    *)
(* kept as the pair (a piece); what the program asks of it (is it empty,   *)
(* does it contain a location) is computed from the pair.                  *)
(***************************************************************************)
RectRing(r) == <<<<r[1], r[2]>>, <<r[3], r[2]>>, <<r[3], r[4]>>, <<r[1], r[4]>>>>
FxRect(r) == <<Fx(r[1]), Fx(r[2]), Fx(r[3]), Fx(r[4])>>

\* twice the signed area of a ring
RECURSIVE Shoelace(_, _)
Shoelace(ring, k) ==
    IF k = 0 THEN 0
    ELSE Cross(ring[k], ring[(k % Len(ring)) + 1]) + Shoelace(ring, k - 1)
RingArea2(ring) == IF Len(ring) < 3 THEN 0 ELSE Shoelace(ring, Len(ring))

Reverse(seq) == [i \in 1..Len(seq) |-> seq[Len(seq) + 1 - i]]

\* Polygon(coords).buffer(0) (lines 159-161): a ring without area becomes
\* the empty polygon (the empty ring), any other comes back with its
\* exterior counter-clockwise.
BufferZero(ring) ==
    IF RingArea2(ring) = 0 THEN <<>>
    ELSE IF RingArea2(ring) < 0 THEN Reverse(ring)
    ELSE ring

\* the side of location q against edge k of a counter-clockwise ring:
\* positive inside
EdgeSide(ring, k, q) ==
    Cross(VSub(ring[(k % Len(ring)) + 1], ring[k]), VSub(q, ring[k]))
\* some edge of ring a has all of ring b on its outer side (strictly, or
\* weakly when `touching` counts as apart)
SeparatedBy(a, b, touching) ==
    \E k \in 1..Len(a) : \A j \in 1..Len(b) :
        IF touching THEN EdgeSide(a, k, b[j]) <= 0 ELSE EdgeSide(a, k, b[j]) < 0
\* Two convex rings have a common location (closed), or a common area (~closed).
Meet(a, b, closed) ==
    /\ a # <<>> /\ b # <<>>
    /\ ~SeparatedBy(a, b, ~closed)
    /\ ~SeparatedBy(b, a, ~closed)
InRing(ring, q) == ring # <<>> /\ \A k \in 1..Len(ring) : EdgeSide(ring, k, q) >= 0

\* unary_union(clipping_gdf.geometry).buffer(0) (lines 142-144): two parts
\* that share a whole side become one part; parts that are apart stay.
ShareSide(a, b) ==
    \/ a[2] = b[2] /\ a[4] = b[4] /\ (a[3] = b[1] \/ b[3] = a[1])
    \/ a[1] = b[1] /\ a[3] = b[3] /\ (a[4] = b[2] \/ b[4] = a[2])
Hull2(a, b) == <<Min(a[1], b[1]), Min(a[2], b[2]), Max(a[3], b[3]), Max(a[4], b[4])>>
UnaryUnion(parts) ==
    IF Len(parts) = 2 /\ ShareSide(parts[1], parts[2])
    THEN <<Hull2(parts[1], parts[2])>>
    ELSE parts

\* clipping_union.bounds (line 147)
RECURSIVE BoundsOf(_)
BoundsOf(parts) ==
    IF Len(parts) = 1 THEN parts[1] ELSE Hull2(Head(parts), BoundsOf(Tail(parts)))

\* radius = 2.5 * diag_length (lines 148-149)
AdaptiveRadius(parts) ==
    LET b == BoundsOf(parts)
    IN  RDiv(5 * Hypot(b[3] - b[1], b[4] - b[2]), 2)

\* clipping_union.buffer(1e-6) (line 172).  The tolerance is below the
\* resolution of the fixed-point coordinates: the mask keeps the parts'
\* coordinates and is marked as reaching just past them, so that a polygon
\* that only touches a part still has a (sliver of) common area with it.
BufferedMask(parts, crs) ==
    [parts |-> [k \in 1..Len(parts) |-> RectRing(parts[k])], buffered |-> TRUE, crs |-> crs]

\* The pieces of polygon `ring` inside the mask: one per part the polygon
\* meets.  Without keep_geom_type a mere contact is kept as a piece too.
PiecesOf(ring, mask) ==
    LET hit == SelectSeq([k \in 1..Len(mask.parts) |-> k],
                         LAMBDA k : Meet(ring, mask.parts[k], TRUE))
    IN  [j \in 1..Len(hit) |->
            [ring |-> ring, part |-> mask.parts[hit[j]], buffered |-> mask.buffered]]

\* geometry.buffer(0) followed by is_empty (lines 181-182): a piece without
\* area is empty
PieceIsEmpty(piece) ==
    ~Meet(piece.ring, piece.part, piece.buffered)
\* whether a piece contains location q
PieceContains(piece, q) == InRing(piece.ring, q) /\ InRing(piece.part, q)

RECURSIVE Flatten(_)
Flatten(ss) == IF ss = <<>> THEN <<>> ELSE Head(ss) \o Flatten(Tail(ss))

\* gpd.overlay(thiessen_gdf, clip_mask, how='intersection',
\* keep_geom_type=False).explode(index_parts=False).reset_index(drop=True)
\* (lines 173-178): one record per polygon and part that meet.
OverlayExplode(gdf, mask) ==
    Flatten([i \in 1..Len(gdf.geoms) |->
        LET ps == PiecesOf(gdf.geoms[i], mask)
        IN  [j \in 1..Len(ps) |-> [attr |-> gdf.attrs[i], geom |-> <<ps[j]>>]]])

\* lines 181-182
DropEmpty(records) ==
    SelectSeq(records, LAMBDA r : \E k \in 1..Len(r.geom) : ~PieceIsEmpty(r.geom[k]))

\* the distinct values of a sequence in ascending order
RECURSIVE SortedSet(_)
SortedSet(S) ==
    IF S = {} THEN <<>>
    ELSE LET lo == CHOOSE x \in S : \A y \in S : x <= y
         IN  <<lo>> \o SortedSet(S \ {lo})

\* dissolve(by=preserve_attribute, as_index=False) (line 185): one record
\* per value, in ascending order of the value, holding all the pieces of
\* the records with that value.
DissolveKeepRows(records) == records
Dissolve(records) ==
    LET vals == SortedSet({records[i].attr : i \in 1..Len(records)})
    IN  [v \in 1..Len(vals) |->
            [attr |-> vals[v],
             geom |-> Flatten([i \in 1..Len(records) |->
                         IF records[i].attr = vals[v] THEN records[i].geom ELSE <<>>])]]

(***************************************************************************)
(* derive_thiessen_polygons (thiessenPolygons.py 104-187)                  *)
(***************************************************************************)
\* Two reference frames: a coordinate in frame "B" is twice the coordinate
\* of the same place in frame "A".  "none" is a missing crs.
CrsPairs == {<<"A", "A">>, <<"A", "B">>, <<"none", "A">>, <<"A", "none">>}
ToCrs(c, from, to) ==
    IF from = to \/ from = "none" \/ to = "none" THEN c
    ELSE IF from = "A" THEN 2 * c ELSE RDiv(c, 2)
RectToCrs(r, from, to) ==
    <<ToCrs(r[1], from, to), ToCrs(r[2], from, to), ToCrs(r[3], from, to), ToCrs(r[4], from, to)>>

\* The boundaries, in the points' frame: one part around all sites; one
\* small part at a corner; two strips apart; two parts sharing a side.
BoundaryFamily ==
    {<<<<-1, -1, 4, 4>>>>,
     <<<<-1, -1, 0, 0>>>>,
     <<<<-1, -1, 0, 4>>, <<3, -1, 4, 4>>>>,
     <<<<-1, -1, 1, 4>>, <<1, -1, 4, 4>>>>}

\* the attribute column: all values distinct, or pairs of points sharing one
AttrPatterns(n) == {[i \in 1..n |-> i], [i \in 1..n |-> (i + 1) \div 2]}
\* the geometry types: all points, or the last one a line
KindPatterns(n) ==
    {[i \in 1..n |-> "Point"]} \cup
    (IF n = 0 THEN {} ELSE {[i \in 1..n |-> IF i = n THEN "LineString" ELSE "Point"]})

NoGdf == [attrs |-> <<>>, geoms |-> <<>>, crs |-> "none"]
NoMask == [parts |-> <<>>, buffered |-> FALSE, crs |-> "none"]

ThIdle ==
    /\ th_pc = "idle"
    /\ gdf_points = [xy |-> <<>>, kinds |-> <<>>, attrs |-> <<>>, crs |-> "none"]
    /\ clipping_gdf = [parts |-> <<>>, crs |-> "none"]
    /\ clipping_union = <<>>
    /\ th_radius = 0
    /\ polys = <<>>
    /\ thiessen_gdf = NoGdf
    /\ clip_mask = NoMask
    /\ thiessen_clipped = <<>>
    /\ th_error = "none"

ThInit ==
    /\ th_pc = "start"
    /\ \E pts \in PointSeqs(0, MaxN), crs \in CrsPairs, b \in BoundaryFamily :
          /\ \E kinds \in KindPatterns(Len(pts)), attrs \in AttrPatterns(Len(pts)) :
                gdf_points = [xy |-> pts, kinds |-> kinds, attrs |-> attrs, crs |-> crs[1]]
          /\ clipping_gdf =
                [parts |-> [k \in 1..Len(b) |-> RectToCrs(b[k], crs[1], crs[2])],
                 crs |-> crs[2]]
    /\ clipping_union = <<>>
    /\ th_radius = 0
    /\ polys = <<>>
    /\ thiessen_gdf = NoGdf
    /\ clip_mask = NoMask
    /\ thiessen_clipped = <<>>
    /\ th_error = "none"

\* clipping_gdf.geometry as line 142 reads it: the coordinates as they are,
\* whatever the crs of clipping_gdf
BoundaryGeometry(gdf) ==
    [k \in 1..Len(gdf.parts) |-> FxRect(gdf.parts[k])]

\* Lines 141-149.
Prepare ==
    /\ th_pc = "start"
    /\ clipping_union' = UnaryUnion(BoundaryGeometry(clipping_gdf))
    /\ th_radius' = AdaptiveRadius(UnaryUnion(BoundaryGeometry(clipping_gdf)))
    /\ th_pc' = "prepared"
    /\ UNCHANGED <<gdf_points, clipping_gdf, polys, thiessen_gdf, clip_mask,
                   thiessen_clipped, th_error>>
    /\ UNCHANGED finvars

\* What lines 152-153 raise, "none" if nothing: pt.x of a geometry that is
\* not a point, Voronoi of an empty array, Qhull without an initial simplex.
DiagramError(gdf) ==
    IF \E i \in 1..Len(gdf.kinds) : gdf.kinds[i] # "Point" THEN "AttributeError"
    ELSE IF Len(gdf.xy) = 0 THEN "ValueError"
    ELSE IF QhullFails(gdf.xy) THEN "QhullError"
    ELSE "none"

\* Lines 152-153 raise.
DiagramRaises ==
    /\ th_pc = "prepared"
    /\ DiagramError(gdf_points) # "none"
    /\ th_error' = DiagramError(gdf_points)
    /\ th_pc' = "raised"
    /\ UNCHANGED <<gdf_points, clipping_gdf, clipping_union, th_radius, polys,
                   thiessen_gdf, clip_mask, thiessen_clipped>>
    /\ UNCHANGED finvars

\* Lines 152-154 up to the call of voronoi_finite_polygons_2d.
DiagramComputed ==
    /\ th_pc = "prepared"
    /\ DiagramError(gdf_points) = "none"
    /\ vor' \in Diagrams(gdf_points.xy)
    /\ radius_arg' = [given |-> TRUE, value |-> th_radius]
    /\ fin_pc' = "start"
    /\ th_pc' = "finitize"
    /\ UNCHANGED <<hull_center, radius, ridge_dict, p1, new_regions, new_vertices,
                   synthesized>>
    /\ UNCHANGED <<gdf_points, clipping_gdf, clipping_union, th_radius, polys,
                   thiessen_gdf, clip_mask, thiessen_clipped, th_error>>

\* polys (lines 157-162)
PolygonsOfLastFirst(regions, vertices) ==
    [i \in 1..Len(regions) |->
        BufferZero([k \in 1..Len(regions[Len(regions) + 1 - i]) |->
                       vertices[regions[Len(regions) + 1 - i][k] + 1]])]
PolygonsOf(regions, vertices) ==
    [i \in 1..Len(regions) |->
        BufferZero([k \in 1..Len(regions[i]) |-> vertices[regions[i][k] + 1]])]

\* Lines 154-169: the call has returned; the polygons are built and paired
\* with the attribute column.  GeoDataFrame raises ValueError when the
\* number of polygons is not the number of rows.
BuildPolygons ==
    /\ th_pc = "finitize"
    /\ fin_pc = "returned"
    /\ polys' = PolygonsOf(new_regions, new_vertices)
    /\ IF Len(new_regions) # Len(gdf_points.attrs)
       THEN /\ th_error' = "ValueError"
            /\ th_pc' = "raised"
            /\ UNCHANGED thiessen_gdf
       ELSE /\ thiessen_gdf' = [attrs |-> gdf_points.attrs,
                                geoms |-> PolygonsOf(new_regions, new_vertices),
                                crs |-> gdf_points.crs]
            /\ th_pc' = "assembled"
            /\ UNCHANGED th_error
    /\ UNCHANGED <<gdf_points, clipping_gdf, clipping_union, th_radius, clip_mask,
                   thiessen_clipped>>
    /\ UNCHANGED finvars

\* Lines 171-182.
Clip ==
    /\ th_pc = "assembled"
    /\ clip_mask' = BufferedMask(clipping_union, thiessen_gdf.crs)
    /\ thiessen_clipped' =
           DropEmpty(OverlayExplode(thiessen_gdf, BufferedMask(clipping_union, thiessen_gdf.crs)))
    /\ th_pc' = "clipped"
    /\ UNCHANGED <<gdf_points, clipping_gdf, clipping_union, th_radius, polys,
                   thiessen_gdf, th_error>>
    /\ UNCHANGED finvars

\* Lines 184-187.
DissolveAndReturn ==
    /\ th_pc = "clipped"
    /\ thiessen_clipped' = Dissolve(thiessen_clipped)
    /\ th_pc' = "returned"
    /\ UNCHANGED <<gdf_points, clipping_gdf, clipping_union, th_radius, polys,
                   thiessen_gdf, clip_mask, th_error>>
    /\ UNCHANGED finvars

ThTerminated == th_pc \in {"returned", "raised"}

(***************************************************************************)
(* download_large_file                                                     *)
(***************************************************************************)
\* A destination path: whether a file exists there, and its bytes.
NoFile == [exists |-> FALSE, data |-> <<>>]
FileOf(bytes) == [exists |-> TRUE, data |-> bytes]

\* os.path.exists / os.path.getsize (download.py 148-150)
FileSize(f) == IF f.exists THEN Len(f.data) ELSE 0

\* open(destination, "ab"): creates the file when absent, keeps its content
\* otherwise (download.py 161)
OpenAppend(f) == IF f.exists THEN f ELSE FileOf(<<>>)

\* The server's answer to "Range: bytes=start-".  A server that honours
\* ranges answers 206 with the tail, or 416 when start is past the end; one
\* that does not answers 200 with the whole body.
ServerStatus(start) ==
    IF range_ok THEN (IF start < Len(remote) THEN 206 ELSE 416) ELSE 200
ServerBody(start) ==
    IF range_ok THEN Drop(remote, start) ELSE remote

\* the statuses the code accepts (download.py 157)
AcceptedStatus(code) == code = 206 \/ code = 200

\* the loop condition (download.py 145)
LoopGuardNoBound(r, m) == TRUE
LoopGuard(r, m) == r < m

\* the handler of ChunkedEncodingError (download.py 177-180)
RetriesAfterErrorForgotten(r) == r
RetriesAfterError(r) == r + 1

DlIdle ==
    /\ dl_pc = "idle"
    /\ remote = <<>>
    /\ range_ok = FALSE
    /\ init_file = NoFile
    /\ file = NoFile
    /\ max_retries = 0
    /\ chunk_size = 0
    /\ retries = 0
    /\ downloaded_size = 0
    /\ status_code = 0
    /\ body = <<>>
    /\ range_start = 0
    /\ attempts = 0
    /\ last_status = "idle"

DlInit ==
    /\ dl_pc = "loop"
    /\ remote \in {[i \in 1..n |-> i] : n \in 1..MaxBytes}
    /\ range_ok \in BOOLEAN
    /\ init_file \in {NoFile} \cup {FileOf(Take(remote, n)) : n \in 0..Len(remote)}
    /\ file = init_file
    /\ max_retries \in 0..MaxRetries
    /\ chunk_size \in 1..MaxChunk
    /\ retries = 0
    /\ downloaded_size = 0
    /\ status_code = 0
    /\ body = <<>>
    /\ range_start = 0
    /\ attempts = 0
    /\ last_status = "running"

\* One pass of the loop up to the status test (download.py 145-158), with an
\* accepted status: the file is opened for appending.
RequestAccepted ==
    /\ dl_pc = "loop"
    /\ LoopGuard(retries, max_retries)
    /\ AcceptedStatus(ServerStatus(FileSize(file)))
    /\ downloaded_size' = FileSize(file)
    /\ range_start' = FileSize(file)
    /\ status_code' = ServerStatus(FileSize(file))
    /\ body' = ServerBody(FileSize(file))
    /\ file' = OpenAppend(file)
    /\ attempts' = attempts + 1
    /\ dl_pc' = "stream"
    /\ UNCHANGED <<remote, range_ok, init_file, max_retries, chunk_size, retries,
                   last_status>>

\* The same pass with any other status: the call prints and returns
\* (download.py 174-176).
RequestRefused ==
    /\ dl_pc = "loop"
    /\ LoopGuard(retries, max_retries)
    /\ \E code \in {ServerStatus(FileSize(file)), 404} :
          /\ ~AcceptedStatus(code)
          /\ status_code' = code
    /\ downloaded_size' = FileSize(file)
    /\ range_start' = FileSize(file)
    /\ attempts' = attempts + 1
    /\ dl_pc' = "returned"
    /\ last_status' = "bad_status"
    /\ UNCHANGED <<remote, range_ok, init_file, file, max_retries, chunk_size,
                   retries, body>>

\* requests.get raises something that is not a ChunkedEncodingError (a
\* refused connection): no handler, the exception leaves the call.
RequestRaises ==
    /\ dl_pc = "loop"
    /\ LoopGuard(retries, max_retries)
    /\ downloaded_size' = FileSize(file)
    /\ range_start' = FileSize(file)
    /\ attempts' = attempts + 1
    /\ dl_pc' = "raised"
    /\ last_status' = "request_exception"
    /\ UNCHANGED <<remote, range_ok, init_file, file, max_retries, chunk_size,
                   retries, status_code, body>>

\* One iteration of `for chunk in response.iter_content(...)`
\* (download.py 164-167).
WriteChunk ==
    /\ dl_pc = "stream"
    /\ body # <<>>
    /\ file' = FileOf(file.data \o Take(body, chunk_size))
    /\ downloaded_size' = downloaded_size + Len(Take(body, chunk_size))
    /\ body' = Drop(body, chunk_size)
    /\ UNCHANGED <<dl_pc, remote, range_ok, init_file, max_retries, chunk_size,
                   retries, status_code, range_start, attempts, last_status>>

\* The body is exhausted: "Download completed", return (download.py 172-173).
Complete ==
    /\ dl_pc = "stream"
    /\ body = <<>>
    /\ dl_pc' = "returned"
    /\ last_status' = "completed"
    /\ UNCHANGED <<remote, range_ok, init_file, file, max_retries, chunk_size,
                   retries, downloaded_size, status_code, body, range_start,
                   attempts>>

\* The connection breaks while the body is iterated: ChunkedEncodingError,
\* caught at download.py 177-180; the loop is entered again.
ChunkError ==
    /\ dl_pc = "stream"
    /\ body # <<>>
    /\ retries' = RetriesAfterError(retries)
    /\ body' = <<>>
    /\ dl_pc' = "loop"
    /\ UNCHANGED <<remote, range_ok, init_file, file, max_retries, chunk_size,
                   downloaded_size, status_code, range_start, attempts,
                   last_status>>

\* The loop condition fails: raise Exception(...) (download.py 145, 182).
Exhausted ==
    /\ dl_pc = "loop"
    /\ ~LoopGuard(retries, max_retries)
    /\ dl_pc' = "raised"
    /\ last_status' = "retries_exhausted"
    /\ UNCHANGED <<remote, range_ok, init_file, file, max_retries, chunk_size,
                   retries, downloaded_size, status_code, body, range_start,
                   attempts>>

DlNext ==
    \/ RequestAccepted
    \/ RequestRefused
    \/ RequestRaises
    \/ WriteChunk
    \/ Complete
    \/ ChunkError
    \/ Exhausted

DlTerminated == dl_pc \in {"returned", "raised"}

(***************************************************************************)
(* Specifications.                                                         *)
(***************************************************************************)
\* A call of download_large_file.
InitDownload == DlInit /\ FinIdle /\ ThIdle
NextDownload ==
    \/ RequestAccepted /\ UNCHANGED <<finvars, thvars>>
    \/ RequestRefused /\ UNCHANGED <<finvars, thvars>>
    \/ RequestRaises /\ UNCHANGED <<finvars, thvars>>
    \/ WriteChunk /\ UNCHANGED <<finvars, thvars>>
    \/ Complete /\ UNCHANGED <<finvars, thvars>>
    \/ ChunkError /\ UNCHANGED <<finvars, thvars>>
    \/ Exhausted /\ UNCHANGED <<finvars, thvars>>
\* The call is a single thread of control: whenever a step is possible one
\* is taken.
SpecDownload == InitDownload /\ [][NextDownload]_vars /\ WF_vars(NextDownload)

\* A call of voronoi_finite_polygons_2d.
InitFinite == FinInit /\ DlIdle /\ ThIdle
NextFinite ==
    \/ FinRejects /\ UNCHANGED <<dlvars, thvars>>
    \/ FinSetup /\ UNCHANGED <<dlvars, thvars>>
    \/ KeepBounded /\ UNCHANGED <<dlvars, thvars>>
    \/ ExtendUnbounded /\ UNCHANGED <<dlvars, thvars>>
    \/ FinReturn /\ UNCHANGED <<dlvars, thvars>>
SpecFinite == InitFinite /\ [][NextFinite]_vars

\* A call of derive_thiessen_polygons, with the call of
\* voronoi_finite_polygons_2d it makes.
Init == ThInit /\ FinIdle /\ DlIdle
Next ==
    \/ Prepare /\ UNCHANGED dlvars
    \/ DiagramRaises /\ UNCHANGED dlvars
    \/ DiagramComputed /\ UNCHANGED dlvars
    \/ FinSetup /\ UNCHANGED <<dlvars, thvars>>
    \/ KeepBounded /\ UNCHANGED <<dlvars, thvars>>
    \/ ExtendUnbounded /\ UNCHANGED <<dlvars, thvars>>
    \/ FinReturn /\ UNCHANGED <<dlvars, thvars>>
    \/ BuildPolygons /\ UNCHANGED dlvars
    \/ Clip /\ UNCHANGED dlvars
    \/ DissolveAndReturn /\ UNCHANGED dlvars
Spec == Init /\ [][Next]_vars

(***************************************************************************)
(* Properties of download_large_file, under SpecDownload.                  *)
(***************************************************************************)
\* C7: with a partial file at the destination and a server that ignores
\* the Range header (200 with the whole body), a completed call leaves
\* exactly the remote file's bytes at the destination.
C7_RestartsWithoutRangeSupport ==
    (/\ last_status = "completed"
     /\ ~range_ok
     /\ init_file.exists
     /\ Len(init_file.data) > 0
     /\ Len(init_file.data) < Len(remote))
        => file.data = remote

\* C8: the call sends at most max_retries requests, each asking for the
\* bytes from the size of the file then on disk; a ChunkedEncodingError is
\* the only way to a further request; the call raises for exhausted
\* retries exactly when max_retries attempts were interrupted; and every
\* call ends.
C8_SafetyPart ==
    /\ attempts <= max_retries
    /\ retries <= max_retries
    /\ (dl_pc = "stream" =>
          /\ attempts = retries + 1
          /\ downloaded_size = FileSize(file)
          /\ range_start + (Len(IF range_ok THEN Drop(remote, range_start) ELSE remote)
                             - Len(body)) = FileSize(file))
    /\ (dl_pc = "loop" => attempts = retries)
    /\ (last_status \in {"completed", "bad_status", "request_exception"} =>
          attempts = retries + 1)
    /\ (last_status = "retries_exhausted" =>
          /\ dl_pc = "raised"
          /\ retries = max_retries
          /\ attempts = max_retries)
    /\ (last_status \in {"completed", "bad_status"} => dl_pc = "returned")
C8_BoundedRetries == []C8_SafetyPart /\ <>DlTerminated
\* the call has failed after max_retries interrupted attempts, the last of
\* which resumed from a non-empty file
C8_Witness ==
    /\ last_status = "retries_exhausted"
    /\ max_retries >= 2
    /\ attempts = max_retries
    /\ range_start > 0

(***************************************************************************)
(* Properties of voronoi_finite_polygons_2d, under SpecFinite.             *)
(***************************************************************************)
NPoints == Len(vor.points)
\* the indices of region reg that denote vertices of the input diagram
OriginalIndices(reg) ==
    {reg[k] : k \in {j \in 1..Len(reg) : reg[j] >= 0 /\ reg[j] < Len(vor.vertices)}}
\* the indices of region reg that denote synthesized vertices
SynthIndices(reg) ==
    {reg[k] : k \in {j \in 1..Len(reg) : reg[j] >= Len(vor.vertices)}}
\* the indices synthesized while point p (0-based) was handled
SynthesizedFor_p(p) ==
    {synthesized[k].index : k \in {j \in 1..Len(synthesized) : synthesized[j].pa = p}}
\* the region scipy gives point p (0-based)
InputRegion(p) == vor.regions[vor.point_region[p + 1] + 1]
InputFinite(p) ==
    {InputRegion(p)[k] : k \in {j \in 1..Len(InputRegion(p)) : InputRegion(p)[j] >= 0}}
\* the ray ridges of point p in the input diagram, as positions in ridge_points
RayRidges(p) ==
    {k \in 1..Len(vor.ridge_points) :
        /\ p \in {vor.ridge_points[k][1], vor.ridge_points[k][2]}
        /\ (vor.ridge_vertices[k][1] < 0 \/ vor.ridge_vertices[k][2] < 0)}

\* C3: for a diagram over N points the function returns exactly N regions,
\* and the i-th returned region is the region of the i-th input point: its
\* vertices are the finite vertices of that point's input region, plus, for
\* an unbounded region, the vertices synthesized for that point's rays.
C3_OneRegionPerPointInOrder ==
    (fin_pc \in {"loop", "returned"}) =>
        /\ Len(new_regions) = p1
        /\ (fin_pc = "returned" => Len(new_regions) = NPoints)
        /\ \A i \in 1..Len(new_regions) :
              /\ OriginalIndices(new_regions[i]) = InputFinite(i - 1)
              /\ SynthIndices(new_regions[i]) = SynthesizedFor_p(i - 1)
              /\ (InputFinite(i - 1) = {InputRegion(i - 1)[k] : k \in 1..Len(InputRegion(i - 1))}
                    => new_regions[i] = InputRegion(i - 1))
\* a returned result with a bounded and an unbounded region, from a diagram
\* whose regions are not numbered in point order
C3_Witness ==
    /\ fin_pc = "returned"
    /\ Len(new_regions) = NPoints
    /\ \E i \in 1..NPoints : vor.point_region[i] # i
    /\ \E i \in 1..NPoints : SynthIndices(new_regions[i]) = {}
    /\ \E i \in 1..NPoints : SynthIndices(new_regions[i]) # {}

\* C4: every returned region is finite: at least 3 vertex indices, none
\* negative, each a position of the returned vertex array, which is the
\* original vertices followed by the synthesized ones.
C4_RegionsAreFinite ==
    (fin_pc \in {"loop", "returned"}) =>
        /\ Len(new_vertices) = Len(vor.vertices) + Len(synthesized)
        /\ SubSeq(new_vertices, 1, Len(vor.vertices)) = vor.vertices
        /\ \A i \in 1..Len(new_regions) :
              /\ Len(new_regions[i]) >= 3
              /\ \A k \in 1..Len(new_regions[i]) :
                    /\ new_regions[i][k] >= 0
                    /\ new_regions[i][k] < Len(new_vertices)
\* a returned result holding a region made of one original vertex and two
\* synthesized ones
C4_Witness ==
    /\ fin_pc = "returned"
    /\ \E i \in 1..Len(new_regions) :
          /\ Len(new_regions[i]) = 3
          /\ Cardinality(SynthIndices(new_regions[i])) = 2

\* C10: every ray ridge of an unbounded region gets exactly one synthesized
\* vertex, at (finite endpoint) + direction * radius, where direction is
\* plus or minus the unit normal of the segment joining the two points, is
\* not the zero vector and has a strictly positive dot product with
\* (ridge midpoint - reference centre); the synthesized vertex is not the
\* finite endpoint.
C10_UnitTol == UnitScale \div 1000
C10_OneFarVertexPerRay ==
    (fin_pc \in {"loop", "returned"}) =>
        /\ \A p \in 0..(p1 - 1) :
              Cardinality({k \in 1..Len(synthesized) : synthesized[k].pa = p})
                  = Cardinality(RayRidges(p))
        /\ \A k \in 1..Len(synthesized) :
              LET s == synthesized[k]
                  t == VSub(vor.points[s.pb + 1], vor.points[s.pa + 1])
                  sum == VAdd(vor.points[s.pa + 1], vor.points[s.pb + 1])
                  mid == <<RDiv(sum[1], 2), RDiv(sum[2], 2)>>
                  far == new_vertices[s.index + 1]
                  base == vor.vertices[s.base + 1]
              IN  /\ \E j \in RayRidges(s.pa) :
                        {vor.ridge_points[j][1], vor.ridge_points[j][2]} = {s.pa, s.pb}
                  /\ \A j \in 1..Len(synthesized) :
                        (j # k /\ synthesized[j].pa = s.pa) => synthesized[j].pb # s.pb
                  /\ s.direction # <<0, 0>>
                  /\ Abs(ISqrt(Dot(s.direction, s.direction)) - UnitScale) <= C10_UnitTol
                  /\ Abs(Dot(s.direction, t)) <= Hypot(t[1], t[2])
                  /\ Dot(VSub(mid, hull_center), s.direction) > 0
                  /\ far = <<base[1] + RDiv(s.direction[1] * radius, UnitScale),
                             base[2] + RDiv(s.direction[2] * radius, UnitScale)>>
                  /\ far # base
\* a point with two ray ridges has been handled, with the default radius
C10_Witness ==
    /\ fin_pc = "returned"
    /\ ~radius_arg.given
    /\ \E p \in 0..(NPoints - 1) :
          /\ Cardinality(RayRidges(p)) = 2
          /\ Cardinality({k \in 1..Len(synthesized) : synthesized[k].pa = p}) = 2

(***************************************************************************)
(* Properties of derive_thiessen_polygons (specification Spec)             *)
(***************************************************************************)
InputValues == {gdf_points.attrs[i] : i \in 1..Len(gdf_points.attrs)}
OutputValues == {thiessen_clipped[i].attr : i \in 1..Len(thiessen_clipped)}
NoValueTwice ==
    \A i, j \in 1..Len(thiessen_clipped) :
        thiessen_clipped[i].attr = thiessen_clipped[j].attr => i = j
\* polygon i of thiessen_gdf has a location in common with the clip mask
MeetsMask(i) ==
    \E k \in 1..Len(clip_mask.parts) : Meet(thiessen_gdf.geoms[i], clip_mask.parts[k], TRUE)

\* C1 as stated: the returned collection has exactly one record for each
\* distinct value of the preserved attribute among the input points.
C1_OneRecordPerInputValue ==
    th_pc = "returned" => NoValueTwice /\ OutputValues = InputValues

\* C1, amended: the returned collection has at most one record for each
\* value of the preserved attribute; every value it holds is a value of an
\* input point; and a value is held exactly when the polygon of one of the
\* points with that value has a location in common with the buffered
\* boundary.
C1_OneRecordPerClippedValue ==
    th_pc = "returned" =>
        /\ NoValueTwice
        /\ OutputValues \subseteq InputValues
        /\ \A v \in InputValues :
              v \in OutputValues <=>
                  \E i \in 1..Len(thiessen_gdf.attrs) : thiessen_gdf.attrs[i] = v /\ MeetsMask(i)

\* a call that returned a record merged from two points' polygons, while
\* the value of another point was dropped by the clip
C1_Witness ==
    /\ th_pc = "returned"
    /\ OutputValues # InputValues
    /\ \E i, j \in 1..Len(thiessen_gdf.attrs) :
          /\ i # j
          /\ thiessen_gdf.attrs[i] = thiessen_gdf.attrs[j]
          /\ MeetsMask(i) /\ MeetsMask(j)

\* the typed errors the specification names for the violated preconditions
C2_Expected ==
    (IF Len(gdf_points.xy) = 0 THEN {"EmptyInputError"} ELSE {}) \cup
    (IF \E i \in 1..Len(gdf_points.kinds) : gdf_points.kinds[i] # "Point"
     THEN {"GeometryTypeError"} ELSE {}) \cup
    (IF gdf_points.crs = "none" \/ clipping_gdf.crs = "none"
     THEN {"MissingReferenceFrameError"} ELSE {})

\* C2: a point set that is empty, holds a geometry that is not a point, or
\* comes without a reference frame makes the call fail with the typed
\* error of that precondition, before any diagram is computed.
C2_TypedErrorBeforeDiagram ==
    (th_pc # "idle" /\ C2_Expected # {}) =>
        /\ vor = NoVor
        /\ ThTerminated => th_pc = "raised" /\ th_error \in C2_Expected

\* location q is within the boundary as the caller passed it
C5_InBoundary(q) ==
    \E k \in 1..Len(clipping_gdf.parts) : InRing(RectRing(FxRect(clipping_gdf.parts[k])), q)
C5_WellFormed ==
    /\ \A i \in 1..Len(gdf_points.kinds) : gdf_points.kinds[i] = "Point"
    /\ gdf_points.crs # "none"
    /\ gdf_points.crs = clipping_gdf.crs
\* the geometry of a record is the whole buffered boundary: every part of
\* the mask is one of its pieces, wholly within the piece's polygon
C5_WholeBoundary(geom) ==
    \A k \in 1..Len(clip_mask.parts) :
        \E j \in 1..Len(geom) :
            /\ geom[j].part = clip_mask.parts[k]
            /\ geom[j].buffered
            /\ \A c \in 1..Len(geom[j].part) : InRing(geom[j].ring, geom[j].part[c])

\* C5: a call with a single point inside the boundary returns exactly one
\* record, with the point's attribute value and the whole buffered
\* boundary as its polygon.
C5_SinglePointGetsBoundary ==
    (/\ Len(gdf_points.xy) = 1
     /\ C5_WellFormed
     /\ C5_InBoundary(FxPoint(gdf_points.xy[1]))
     /\ ThTerminated) =>
        /\ th_pc = "returned"
        /\ Len(thiessen_clipped) = 1
        /\ thiessen_clipped[1].attr = gdf_points.attrs[1]
        /\ C5_WholeBoundary(thiessen_clipped[1].geom)

\* sample locations: the half-integer lattice over the sites' surroundings
C6_Samples == {<<Fx(a) \div 2, Fx(b) \div 2>> : a \in -2..8, b \in -2..8}
C6_Dist2(q, i) == Sq(q[1] - Fx(gdf_points.xy[i][1])) + Sq(q[2] - Fx(gdf_points.xy[i][2]))
C6_Nearest(q, i) ==
    \A j \in 1..Len(gdf_points.xy) : j # i => C6_Dist2(q, i) < C6_Dist2(q, j)
C6_RecordContains(r, q) == \E k \in 1..Len(r.geom) : PieceContains(r.geom[k], q)
\* N >= 1 distinct points of one frame with the boundary, all of them
\* inside a boundary of one convex part
C6_Precondition ==
    /\ Len(gdf_points.xy) >= 1
    /\ C5_WellFormed
    /\ Len(UnaryUnion(BoundaryGeometry(clipping_gdf))) = 1
    /\ \A i \in 1..Len(gdf_points.xy) : C5_InBoundary(FxPoint(gdf_points.xy[i]))
\* every location of the boundary that has one nearest input point lies in
\* the record of that point's value and in no other record
C6_Partition ==
    \A q \in C6_Samples : \A i \in 1..Len(gdf_points.xy) :
        (C5_InBoundary(q) /\ C6_Nearest(q, i)) =>
            /\ \E r \in 1..Len(thiessen_clipped) :
                  /\ thiessen_clipped[r].attr = gdf_points.attrs[i]
                  /\ C6_RecordContains(thiessen_clipped[r], q)
            /\ \A r \in 1..Len(thiessen_clipped) :
                  C6_RecordContains(thiessen_clipped[r], q) =>
                      thiessen_clipped[r].attr = gdf_points.attrs[i]

\* C6: for N >= 1 distinct points inside a convex boundary the call
\* returns polygons that partition the boundary, each location of a
\* polygon being nearer to its point than to any other input point.
C6_PartitionOfConvexBoundary ==
    (C6_Precondition /\ ThTerminated) => th_pc = "returned" /\ C6_Partition

\* the boundary's union in the points' frame
C9_ReprojectedUnion ==
    UnaryUnion([k \in 1..Len(clipping_gdf.parts) |->
        FxRect(RectToCrs(clipping_gdf.parts[k], clipping_gdf.crs, gdf_points.crs))])

\* C9: when the frames of the points and of the boundary differ, the
\* boundary is reprojected into the points' frame before the clip: the clip
\* mask holds the boundary's parts in the points' frame.
C9_BoundaryReprojectedBeforeClip ==
    (/\ gdf_points.crs # "none" /\ clipping_gdf.crs # "none"
     /\ gdf_points.crs # clipping_gdf.crs
     /\ th_pc \in {"clipped", "returned"}) =>
        /\ clip_mask.crs = gdf_points.crs
        /\ clip_mask.parts =
              [k \in 1..Len(C9_ReprojectedUnion) |-> RectRing(C9_ReprojectedUnion[k])]

\* the polygon of the region returned for point p (0-based): the
\* coordinates its indices denote in the returned vertex array
C11_PolygonOfPoint(p) ==
    BufferZero([k \in 1..Len(new_regions[p + 1]) |->
                   new_vertices[new_regions[p + 1][k] + 1]])
\* the region returned for point p is made of the finite vertices of the
\* region the diagram gives p and of the far points of p's own rays
C11_RegionOfSamePoint(p) ==
    /\ OriginalIndices(new_regions[p + 1]) = InputFinite(p)
    /\ SynthIndices(new_regions[p + 1]) = SynthesizedFor_p(p)

\* C11: in the collection assembled before the clip, the i-th record pairs
\* the preserved attribute value of the i-th input point with the polygon
\* built from that point's own Voronoi region, for every i; the list of
\* polygons has the length of the point set (the assembly never fails on a
\* length mismatch), and the collection keeps the points' reference frame.
C11_AttributePairedWithOwnPolygon ==
    /\ (th_pc = "finitize" /\ fin_pc = "returned") =>
           Len(new_regions) = Len(gdf_points.xy)
    /\ th_pc = "raised" => fin_pc = "idle"
    /\ th_pc \in {"assembled", "clipped", "returned"} =>
        /\ Len(polys) = Len(gdf_points.xy)
        /\ Len(thiessen_gdf.attrs) = Len(gdf_points.xy)
        /\ Len(thiessen_gdf.geoms) = Len(gdf_points.xy)
        /\ thiessen_gdf.crs = gdf_points.crs
        /\ \A i \in 1..Len(gdf_points.xy) :
              /\ thiessen_gdf.attrs[i] = gdf_points.attrs[i]
              /\ thiessen_gdf.geoms[i] = C11_PolygonOfPoint(i - 1)
              /\ polys[i] = C11_PolygonOfPoint(i - 1)
              /\ C11_RegionOfSamePoint(i - 1)

\* a collection assembled for four points, two of them sharing a value,
\* from a diagram whose regions are not numbered in point order and which
\* has a bounded region
C11_Witness ==
    /\ th_pc = "assembled"
    /\ Len(gdf_points.xy) = 4
    /\ gdf_points.attrs[1] = gdf_points.attrs[2]
    /\ \E i \in 1..Len(vor.point_region) : vor.point_region[i] # i
    /\ \E i \in 1..Len(new_regions) : SynthIndices(new_regions[i]) = {}
    /\ \E i, j \in 1..Len(polys) : polys[i] # polys[j]

(***************************************************************************)
(* Order of the ridges (specification SpecFinite)                          *)
(***************************************************************************)
\* the coordinates a region denotes in a vertex array
C12_Coords(region, verts) == [k \in 1..Len(region) |-> verts[region[k] + 1]]
\* the length of new_vertices when the loop reached point p (0-based)
C12_VerticesBefore(p) ==
    Len(vor.vertices) +
    Cardinality({k \in 1..Len(synthesized) : synthesized[k].pa < p})
\* the ridges of a point in another order of traversal
C12_Orders(ridges) ==
    {[i \in 1..Len(ridges) |-> ridges[f[i]]] : f \in Permutations(1..Len(ridges))}
\* lines 75-100 for point p with its ridges traversed in the given order:
\* the coordinates of the region in its final order
C12_RegionCoords(p, ridges) ==
    LET ext == ExtendRidges(vor, hull_center, radius, p, ridges,
                   [finite_verts |-> FiniteVerts(RegionOfPoint(vor, p)),
                    new_vertices |-> SubSeq(new_vertices, 1, C12_VerticesBefore(p))])
    IN  C12_Coords(SortByAngle(ext.finite_verts, ext.new_vertices), ext.new_vertices)
\* the far points of point p, as entries of `synthesized`
C12_Rays(p) == {k \in 1..Len(synthesized) : synthesized[k].pa = p}
\* two vertices of the region returned for p that the sort cannot tell
\* apart: the same angle around the centroid of the region's vertices
C12_SameAngle(p) ==
    LET vs == C12_Coords(new_regions[p + 1], new_vertices)
        c == MeanPoint(vs)
    IN  \E i, j \in 1..Len(vs) :
           /\ i # j
           /\ ~AngleLess(VSub(vs[i], c), VSub(vs[j], c))
           /\ ~AngleLess(VSub(vs[j], c), VSub(vs[i], c))

\* C12: for an unbounded region with several ray ridges, the final vertex
\* order of the region, as a sequence of coordinates after the angle sort
\* around the centroid of the region's vertices, is the same for every
\* order in which the ridges of the point are traversed.
C12_OrderIndependentOfRidgeTraversal ==
    fin_pc \in {"loop", "returned"} =>
        \A p \in 0..(p1 - 1) :
            ~IsBounded(RegionOfPoint(vor, p)) =>
                \A ridges \in C12_Orders(ridge_dict[p]) :
                    C12_RegionCoords(p, ridges) = C12_Coords(new_regions[p + 1], new_vertices)

\* a returned region with two far points whose point has three ridges or
\* more, so that the two ray ridges are met in either order and with a
\* ridge between them
C12_Witness ==
    /\ fin_pc = "returned"
    /\ \E p \in 0..(p1 - 1) :
          /\ Cardinality(C12_Rays(p)) >= 2
          /\ Len(ridge_dict[p]) >= 3
          /\ Len(new_regions[p + 1]) >= 4

(***************************************************************************)
(* Frame of voronoi_finite_polygons_2d (specification SpecFinite)          *)
(***************************************************************************)
\* the returned vertex array begins with the vertices of the input diagram,
\* each at its own position
C13_OriginalVerticesKept ==
    /\ Len(new_vertices) >= Len(vor.vertices)
    /\ SubSeq(new_vertices, 1, Len(vor.vertices)) = vor.vertices
\* a bounded region is returned as it is, and each of its indices denotes
\* in the returned array the coordinate it denotes in the input diagram
C13_BoundedRegionsKept ==
    \A p \in 0..(p1 - 1) :
        IsBounded(vor.regions[vor.point_region[p + 1] + 1]) =>
            /\ new_regions[p + 1] = vor.regions[vor.point_region[p + 1] + 1]
            /\ \A k \in 1..Len(new_regions[p + 1]) :
                  new_vertices[new_regions[p + 1][k] + 1] =
                      vor.vertices[new_regions[p + 1][k] + 1]
\* every vertex after the original ones was appended for a ray, in the
\* order of appending
C13_SynthesizedAppended ==
    /\ Len(new_vertices) = Len(vor.vertices) + Len(synthesized)
    /\ \A k \in 1..Len(synthesized) : synthesized[k].index = Len(vor.vertices) + k - 1
C13_FrameState ==
    fin_pc \in {"loop", "returned"} =>
        C13_OriginalVerticesKept /\ C13_BoundedRegionsKept /\ C13_SynthesizedAppended

\* C13: voronoi_finite_polygons_2d leaves the input diagram unchanged (its
\* points, vertices, regions, point_region and ridge lists are the same
\* after every step of the call), and the returned vertex array keeps the
\* original vertices at their original positions, with the synthesized
\* vertices only appended after them, so that every index of a bounded
\* region kept as it is still denotes the same coordinate.
C13_InputUnchangedVerticesAppended ==
    /\ []C13_FrameState
    /\ [][vor' = vor]_vars

\* a call that returned a bounded region as it is, together with regions
\* that were given far points
C13_Witness ==
    /\ fin_pc = "returned"
    /\ Len(new_vertices) > Len(vor.vertices)
    /\ \E p \in 0..(p1 - 1) :
          /\ IsBounded(vor.regions[vor.point_region[p + 1] + 1])
          /\ Len(new_regions[p + 1]) >= 3

============================================================================
